---- MODULE Spec2Model ----
(***************************************************************************)
(* A model of funnylog2 (src/funnylog2/__init__.py):                        *)
(*   - the Singleton metaclass and the logger facade, as a state machine    *)
(*     of threads stepping through Singleton.__call__ line by line          *)
(*     (SpecSingleton);                                                     *)
(*   - the Call Tracer _trace.wrapped, as a function of the callable, the   *)
(*     call and ALLURE_STEP (SpecTrace);                                    *)
(*   - the Class Instrumentor log, as an action on the class dictionaries   *)
(*     (SpecLog).                                                           *)
(* Text is a sequence of tokens (a token is a character or an atomic piece  *)
(* of text); concatenation of text is \o.                                   *)
(***************************************************************************)
EXTENDS Integers, Sequences, FiniteSets, TLC

(***************************************************************************)
(* The state: the Singleton and facade part, the Call Tracer part and the   *)
(* Class Instrumentor part.                                                 *)
(***************************************************************************)
VARIABLES
    pc,        \* pc[t]: the line thread t is about to execute
    call,      \* call[t]: the constructor call thread t is in
    facade,    \* facade[t]: the call was made by a facade function (line 307)
    lock,      \* Singleton._instance_lock: its holder, or NoThread
    slot,      \* Singleton.__instance, one attribute shared by every type
    cache,     \* cache[type][key]: self._cache, a WeakValueDictionary
    heap,      \* heap[i]: the type and key instance i was constructed with
    tmp,       \* tmp[t]: the instance on t's evaluation stack (lines 47, 48, 51)
    ret,       \* ret[t]: the instance returned to and held by t's caller
    built,     \* built[t]: the instance t's current call constructed
    handlers,  \* len(logging.root.handlers)
    facadeInits, \* runs of logger.__init__ caused by facade calls
    defined    \* the types whose class statement has been executed

svars == <<pc, call, facade, lock, slot, cache, heap, tmp, ret, built,
           handlers, facadeInits, defined>>

VARIABLES
    ALLURE_STEP,  \* lines 17-24: whether allure_commons could be imported
    tfunc,        \* the callable handed to _trace
    tvia,         \* the call goes through an instance or through the class
    targs,        \* the positional arguments written at the call site
    tkw,          \* the keyword arguments written at the call site
    tphase,       \* "ready" before the call, "logging" at line 156, "called" after
    tres          \* what the wrapper did

tvars == <<ALLURE_STEP, tfunc, tvia, targs, tkw, tphase, tres>>

VARIABLES
    CLASS_NAME_STARTSWITH,  \* config.CLASS_NAME_STARTSWITH (line 180)
    CLASS_NAME_ENDSWITH,    \* config.CLASS_NAME_ENDSWITH (line 181)
    CLASS_NAME_CONTAIN,     \* config.CLASS_NAME_CONTAIN (line 183)
    dict,      \* dict[c][name]: the class dictionary of c
    applied    \* applied[c]: how many times log(c) has run

lvars == <<CLASS_NAME_STARTSWITH, CLASS_NAME_ENDSWITH, CLASS_NAME_CONTAIN,
           dict, applied>>

vars == <<svars, tvars, lvars>>

(***************************************************************************)
(* Generic helpers on sequences of text.                                    *)
(***************************************************************************)
RECURSIVE Flatten(_)
\* "".join(parts): the concatenation of a sequence of texts.
Flatten(parts) ==
    IF parts = <<>> THEN <<>> ELSE Head(parts) \o Flatten(Tail(parts))

(***************************************************************************)
(* PART 1.  Singleton and the logger facade.                                *)
(***************************************************************************)
NThreads == 2
MaxInst == 3

Threads == 1..NThreads
InstIds == 1..MaxInst
NoInst == 0
NoThread == 0

\* The types built through the metaclass: logger (line 232) and one other.
Types == {"logger", "T"}

\* config.LOG_LEVEL, the argument of every facade-triggered construction.
LOG_LEVEL == <<"DEBUG">>

\* The constructor calls made of each type, as positional texts and keyword
\* (name, value) pairs.  logger.__init__(self, level) takes the level alone;
\* the other type takes any arguments.
CallsOf(ty) ==
    IF ty = "logger"
    THEN { [args |-> << LOG_LEVEL >>, kw |-> <<>>],
           [args |-> <<>>, kw |-> << [name |-> <<"level">>, value |-> LOG_LEVEL] >>] }
    ELSE { [args |-> << <<"a">>, <<"b">> >>, kw |-> <<>>],
           [args |-> <<>>, kw |-> << [name |-> <<"a", "b">>, value |-> <<"7">>] >>],
           [args |-> << LOG_LEVEL >>, kw |-> <<>>] }

CtorCalls == UNION { CallsOf(ty) : ty \in Types }

\* Line 42: kargs = "".join([f"{key}" for key in args]) if args else ""
kargs(args) == Flatten(args)

\* Line 43: kkwargs = "".join([f"{key}" for key in kwargs]); iterating a dict
\* yields its keys, so only the keyword names enter the key.
kkwargs(kw) == Flatten([i \in 1..Len(kw) |-> kw[i].name])

\* Lines 45, 48, 51: the cache key kargs + kkwargs.
DerivedKey(c) == kargs(c.args) \o kkwargs(c.kw)

Keys == { DerivedKey(c) : c \in CtorCalls }

NoCall == [type |-> "none", args |-> <<>>, kw |-> <<>>]
NoObj == [type |-> "none", key |-> <<>>]


\* The strong references: the class attribute, the callers' variables and the
\* objects under construction.  The cache itself holds none.
StrongRefs(s, r, tm) ==
    ({s} \cup {r[t] : t \in Threads} \cup {tm[t] : t \in Threads}) \ {NoInst}

\* weakref.WeakValueDictionary (line 38): an entry vanishes with the last
\* strong reference to its value.
Sweep(ch, s, r, tm) ==
    [ty \in Types |-> [k \in Keys |->
        IF ch[ty][k] \in StrongRefs(s, r, tm) THEN ch[ty][k] ELSE NoInst]]

NextId == Cardinality({i \in InstIds : heap[i] # NoObj}) + 1

SInit ==
    /\ pc = [t \in Threads |-> "idle"]
    /\ call = [t \in Threads |-> NoCall]
    /\ facade = [t \in Threads |-> FALSE]
    /\ lock = NoThread
    /\ slot = NoInst                 \* line 36: Singleton.__instance = None
    /\ cache = [ty \in Types |-> [k \in Keys |-> NoInst]]   \* line 38
    /\ defined = {"logger"}          \* line 232 has run, no later class yet
    /\ heap = [i \in InstIds |-> NoObj]
    /\ tmp = [t \in Threads |-> NoInst]
    /\ ret = [t \in Threads |-> NoInst]
    /\ built = [t \in Threads |-> NoInst]
    /\ handlers = 0
    /\ facadeInits = 0

\* Lines 34-38: Singleton.__init__ runs when a class statement with
\* metaclass=Singleton is executed.  It resets the attribute shared by every
\* type (line 36), releasing the instance it held, and gives the new class an
\* empty cache (line 38).
ClassDef(t) ==
    /\ pc[t] = "idle"
    /\ \E ty \in Types \ defined :
          /\ defined' = defined \cup {ty}
          /\ slot' = NoInst
          /\ cache' = Sweep([cache EXCEPT ![ty] = [k \in Keys |-> NoInst]],
                            NoInst, ret, tmp)
    /\ UNCHANGED <<pc, call, facade, lock, heap, tmp, ret, built, handlers,
                   facadeInits>>
    /\ UNCHANGED <<tvars, lvars>>

\* A caller evaluates T(*args, **kwargs): enter Singleton.__call__.
Construct(t) ==
    /\ pc[t] = "idle"
    /\ \E ty \in defined : \E c \in CallsOf(ty) :
          call' = [call EXCEPT ![t] = [type |-> ty, args |-> c.args, kw |-> c.kw]]
    /\ pc' = [pc EXCEPT ![t] = "l45"]
    /\ facade' = [facade EXCEPT ![t] = FALSE]
    /\ built' = [built EXCEPT ![t] = NoInst]
    /\ UNCHANGED <<lock, slot, cache, defined, heap, tmp, ret, handlers,
                   facadeInits>>
    /\ UNCHANGED <<tvars, lvars>>

\* A caller (user code, or the wrapper of another thread at line 156) enters
\* logger.info / debug / error / exception / warning.
FacadeEnter(t) ==
    /\ pc[t] = "idle"
    /\ pc' = [pc EXCEPT ![t] = "f306"]
    /\ built' = [built EXCEPT ![t] = NoInst]
    /\ UNCHANGED <<call, facade, lock, slot, cache, defined, heap, tmp, ret,
                   handlers, facadeInits>>
    /\ UNCHANGED <<tvars, lvars>>

\* Lines 306-307 (and 315, 332, 341, 347): if len(logging.root.handlers) == 0:
\* logger(config.LOG_LEVEL)
FacadeCheck(t) ==
    /\ pc[t] = "f306"
    /\ IF handlers = 0
       THEN /\ call' = [call EXCEPT ![t] =
                          [type |-> "logger", args |-> << LOG_LEVEL >>, kw |-> <<>>]]
            /\ facade' = [facade EXCEPT ![t] = TRUE]
            /\ pc' = [pc EXCEPT ![t] = "l45"]
       ELSE /\ pc' = [pc EXCEPT ![t] = "f311"]
            /\ UNCHANGED <<call, facade>>
    /\ UNCHANGED <<lock, slot, cache, defined, heap, tmp, ret, built, handlers,
                   facadeInits>>
    /\ UNCHANGED <<tvars, lvars>>

\* Line 45, the lookup: kargs + kkwargs not in self._cache runs
\* WeakValueDictionary.__contains__ outside the lock, whose
\* o = self.data[key]() takes a strong reference to the cached instance.
CacheRead(t) ==
    /\ pc[t] = "l45"
    /\ tmp' = [tmp EXCEPT ![t] = cache[call[t].type][DerivedKey(call[t])]]
    /\ pc' = [pc EXCEPT ![t] = "l45b"]
    /\ UNCHANGED <<call, facade, lock, slot, cache, defined, heap, ret, built,
                   handlers, facadeInits>>
    /\ UNCHANGED <<tvars, lvars>>

\* Line 45, the test: __contains__ returns o is not None, releasing o, and
\* the if statement branches on the answer.
CacheCheck(t) ==
    /\ pc[t] = "l45b"
    /\ pc' = [pc EXCEPT ![t] = IF tmp[t] = NoInst THEN "l46" ELSE "l51"]
    /\ tmp' = [tmp EXCEPT ![t] = NoInst]
    /\ cache' = Sweep(cache, slot, ret, tmp')
    /\ UNCHANGED <<call, facade, lock, slot, defined, heap, ret, built,
                   handlers, facadeInits>>
    /\ UNCHANGED <<tvars, lvars>>

\* Line 46: with Singleton._instance_lock
Acquire(t) ==
    /\ pc[t] = "l46"
    /\ lock = NoThread
    /\ lock' = t
    /\ pc' = [pc EXCEPT ![t] = "l47"]
    /\ UNCHANGED <<call, facade, slot, cache, defined, heap, tmp, ret, built,
                   handlers, facadeInits>>
    /\ UNCHANGED <<tvars, lvars>>

\* Line 47, right-hand side: super().__call__ allocates the instance and
\* enters its __init__ (logger.__init__ for the logger type).
Allocate(t) ==
    /\ pc[t] = "l47"
    /\ NextId \in InstIds
    /\ heap' = [heap EXCEPT ![NextId] =
                  [type |-> call[t].type, key |-> DerivedKey(call[t])]]
    /\ tmp' = [tmp EXCEPT ![t] = NextId]
    /\ built' = [built EXCEPT ![t] = NextId]
    /\ pc' = [pc EXCEPT ![t] = IF call[t].type = "logger" THEN "l236" ELSE "l47s"]
    /\ UNCHANGED <<call, facade, lock, slot, cache, defined, ret, handlers,
                   facadeInits>>
    /\ UNCHANGED <<tvars, lvars>>

\* Line 236: logging.root.handlers = []  (the constructor body starts)
InitReset(t) ==
    /\ pc[t] = "l236"
    /\ handlers' = 0
    /\ facadeInits' = IF facade[t] THEN facadeInits + 1 ELSE facadeInits
    /\ pc' = [pc EXCEPT ![t] = "l300"]
    /\ UNCHANGED <<call, facade, lock, slot, cache, defined, heap, tmp, ret, built>>
    /\ UNCHANGED <<tvars, lvars>>

\* Lines 300, 301, 302: self.logger.addHandler(...), one statement a step;
\* each appends one handler to whatever logging.root.handlers holds.
AddHandler(t) ==
    /\ pc[t] \in {"l300", "l301", "l302"}
    /\ handlers' = handlers + 1
    /\ pc' = [pc EXCEPT ![t] = CASE pc[t] = "l300" -> "l301"
                                 [] pc[t] = "l301" -> "l302"
                                 [] pc[t] = "l302" -> "l47s"]
    /\ UNCHANGED <<call, facade, lock, slot, cache, defined, heap, tmp, ret,
                   built, facadeInits>>
    /\ UNCHANGED <<tvars, lvars>>

\* Line 47, the assignment: Singleton.__instance = <the new instance>
StoreNew(t) ==
    /\ pc[t] = "l47s"
    /\ slot' = tmp[t]
    /\ tmp' = [tmp EXCEPT ![t] = NoInst]
    /\ cache' = Sweep(cache, slot', ret, tmp')
    /\ pc' = [pc EXCEPT ![t] = "l48"]
    /\ UNCHANGED <<call, facade, lock, defined, heap, ret, built, handlers,
                   facadeInits>>
    /\ UNCHANGED <<tvars, lvars>>

\* Line 48, right-hand side: the shared attribute is read again.
InsertRead(t) ==
    /\ pc[t] = "l48"
    /\ tmp' = [tmp EXCEPT ![t] = slot]
    /\ pc' = [pc EXCEPT ![t] = "l48w"]
    /\ UNCHANGED <<call, facade, lock, slot, cache, defined, heap, ret, built,
                   handlers, facadeInits>>
    /\ UNCHANGED <<tvars, lvars>>

\* Line 48, the store: self._cache[kargs + kkwargs] = <the value read>.
\* Singleton.__init__ may have set the attribute to None in between; a weak
\* reference to None cannot be created (TypeError, the with block still
\* releases the lock on the way out).
Insert(t) ==
    /\ pc[t] = "l48w"
    /\ IF tmp[t] = NoInst
       THEN /\ pc' = [pc EXCEPT ![t] = "l48e"]
            /\ UNCHANGED <<cache, tmp>>
       ELSE /\ tmp' = [tmp EXCEPT ![t] = NoInst]
            /\ cache' = Sweep([cache EXCEPT ![call[t].type][DerivedKey(call[t])] = tmp[t]],
                              slot, ret, tmp')
            /\ pc' = [pc EXCEPT ![t] = "l48x"]
    /\ UNCHANGED <<call, facade, lock, slot, defined, heap, ret, built, handlers,
                   facadeInits>>
    /\ UNCHANGED <<tvars, lvars>>

\* The end of the with block of line 46: the lock is released, on the normal
\* path and on the exceptional one.
Release(t) ==
    /\ pc[t] \in {"l48x", "l48e"}
    /\ lock' = NoThread
    /\ pc' = [pc EXCEPT ![t] = IF pc[t] = "l48x" THEN "l52" ELSE "raised"]
    /\ UNCHANGED <<call, facade, slot, cache, defined, heap, tmp, ret, built,
                   handlers, facadeInits>>
    /\ UNCHANGED <<tvars, lvars>>

\* Line 51, right-hand side: self._cache[kargs + kkwargs], which returns a
\* strong reference; KeyError when the entry has vanished since line 45.
HitRead(t) ==
    /\ pc[t] = "l51"
    /\ LET e == cache[call[t].type][DerivedKey(call[t])] IN
         IF e = NoInst
         THEN /\ pc' = [pc EXCEPT ![t] = "raised"]
              /\ UNCHANGED tmp
         ELSE /\ tmp' = [tmp EXCEPT ![t] = e]
              /\ pc' = [pc EXCEPT ![t] = "l51s"]
    /\ UNCHANGED <<call, facade, lock, slot, cache, defined, heap, ret, built,
                   handlers, facadeInits>>
    /\ UNCHANGED <<tvars, lvars>>

\* Line 51, the assignment: Singleton.__instance = <the value read>, made
\* without the lock.
Hit(t) ==
    /\ pc[t] = "l51s"
    /\ slot' = tmp[t]
    /\ tmp' = [tmp EXCEPT ![t] = NoInst]
    /\ cache' = Sweep(cache, slot', ret, tmp')
    /\ pc' = [pc EXCEPT ![t] = "l52"]
    /\ UNCHANGED <<call, facade, lock, defined, heap, ret, built, handlers,
                   facadeInits>>
    /\ UNCHANGED <<tvars, lvars>>

\* Line 52: return Singleton.__instance.  The caller receives the value:
\* a facade function has it on its evaluation stack (line 307), any other
\* caller holds it.
Return(t) ==
    /\ pc[t] = "l52"
    /\ ret' = [ret EXCEPT ![t] = slot]
    /\ pc' = [pc EXCEPT ![t] = IF facade[t] THEN "f307" ELSE "done"]
    /\ UNCHANGED <<call, facade, lock, slot, cache, defined, heap, tmp, built,
                   handlers, facadeInits>>
    /\ UNCHANGED <<tvars, lvars>>

\* Line 307 (316, 333, 342, 348) is an expression statement: the facade
\* discards the instance it was returned.
FacadeDiscard(t) ==
    /\ pc[t] = "f307"
    /\ ret' = [ret EXCEPT ![t] = NoInst]
    /\ cache' = Sweep(cache, slot, ret', tmp)
    /\ pc' = [pc EXCEPT ![t] = "f311"]
    /\ UNCHANGED <<call, facade, lock, slot, defined, heap, tmp, built,
                   handlers, facadeInits>>
    /\ UNCHANGED <<tvars, lvars>>

\* logging.info and its siblings: with no handler on the root logger they
\* call logging.basicConfig(), which installs one StreamHandler.
Emit(h) == IF h = 0 THEN 1 ELSE h

\* Lines 311, 324-328, 337, 343, 349: the record is handed to logging.
FacadeEmit(t) ==
    /\ pc[t] = "f311"
    /\ handlers' = Emit(handlers)
    /\ pc' = [pc EXCEPT ![t] = "idle"]
    /\ facade' = [facade EXCEPT ![t] = FALSE]
    /\ call' = [call EXCEPT ![t] = NoCall]
    /\ UNCHANGED <<lock, slot, cache, defined, heap, tmp, ret, built, facadeInits>>
    /\ UNCHANGED <<tvars, lvars>>

\* The caller drops its reference to the instance it was returned (or
\* handles the exception); the weak cache loses the entry with the last one.
Drop(t) ==
    /\ pc[t] \in {"done", "raised"}
    /\ pc' = [pc EXCEPT ![t] = "idle"]
    /\ ret' = [ret EXCEPT ![t] = NoInst]
    /\ call' = [call EXCEPT ![t] = NoCall]
    /\ facade' = [facade EXCEPT ![t] = FALSE]
    /\ built' = [built EXCEPT ![t] = NoInst]
    /\ cache' = Sweep(cache, slot, ret', tmp)
    /\ UNCHANGED <<lock, slot, defined, heap, tmp, handlers, facadeInits>>
    /\ UNCHANGED <<tvars, lvars>>

SNext ==
    \E t \in Threads :
        \/ ClassDef(t)
        \/ Construct(t)
        \/ FacadeEnter(t)
        \/ FacadeCheck(t)
        \/ CacheRead(t)
        \/ CacheCheck(t)
        \/ Acquire(t)
        \/ Allocate(t)
        \/ InitReset(t)
        \/ AddHandler(t)
        \/ StoreNew(t)
        \/ InsertRead(t)
        \/ Insert(t)
        \/ Release(t)
        \/ HitRead(t)
        \/ Hit(t)
        \/ Return(t)
        \/ FacadeDiscard(t)
        \/ FacadeEmit(t)
        \/ Drop(t)

(***************************************************************************)
(* PART 2.  The Call Tracer, _trace.wrapped (lines 90-165).                 *)
(* A value is [tag, txt]: its Python type and its str() text.               *)
(***************************************************************************)
MaxArgs == 2

PyStr(t) == [tag |-> "str", txt |-> t]
PyInt(t) == [tag |-> "int", txt |-> <<t>>]
PyFalse == [tag |-> "bool", txt |-> <<"False">>]
\* The instance a method is called on, and another instance of the class.
Recv == [tag |-> "obj", txt |-> <<"<recv>">>]
Other == [tag |-> "obj", txt |-> <<"<other>">>]
\* inspect.Parameter.empty, the default of a parameter that declares none
\* (line 127); it is a class, so it is truthy and str() gives this text.
Empty == [tag |-> "empty", txt |-> <<"<class 'inspect._empty'>">>]

\* bool(v), as "if argument:" evaluates it (line 143)
Truthy(v) ==
    CASE v.tag = "str" -> v.txt # <<>>
      [] v.tag = "int" -> v.txt # <<"0">>
      [] v.tag = "bool" -> v.txt # <<"False">>
      [] OTHER -> TRUE

\* allure_commons.utils.represent (imported line 20, used line 129): repr(),
\* which quotes a string and equals str() for the other values here.
represent(v) ==
    PyStr(IF v.tag = "str" THEN <<"'">> \o v.txt \o <<"'">> ELSE v.txt)

RECURSIVE LStrip(_, _)
\* drop the leading tokens of s that are in chars
LStrip(s, chars) ==
    IF s # <<>> /\ Head(s) \in chars THEN LStrip(Tail(s), chars) ELSE s

RECURSIVE RStrip(_, _)
\* drop the trailing tokens of s that are in chars
RStrip(s, chars) ==
    IF s # <<>> /\ s[Len(s)] \in chars
    THEN RStrip(SubSeq(s, 1, Len(s) - 1), chars) ELSE s

\* str.strip(chars)
Strip(s, chars) == RStrip(LStrip(s, chars), chars)

Whitespace == {" ", "\n"}
Markers == {":param", "@param", "@return", ":return"}

\* the placeholder {{name}} (lines 145, 151), one token of a title
Ph(name) == "{{" \o name \o "}}"

\* The callables the tracer wraps.  kind is how the class declares it;
\* params is inspect.signature(func).parameters (a bound classmethod has no
\* cls parameter); doc is func.__doc__, <<>> when there is none.
Funcs ==
    { [name |-> <<"add">>, kind |-> "instance",
       params |-> << [name |-> "self", default |-> Empty],
                     [name |-> "a", default |-> Empty],
                     [name |-> "b", default |-> Empty] >>,
       doc |-> <<"Adds", " ", "{{a}}", " ", "and", " ", "{{b}}">>],
      [name |-> <<"need">>, kind |-> "instance",
       params |-> << [name |-> "self", default |-> Empty],
                     [name |-> "a", default |-> Empty],
                     [name |-> "b", default |-> PyInt("5")] >>,
       doc |-> <<"\n", " ", "a", " ", "{{a}}", " ", "\n", " ", "{{b}}", "\n",
                 " ", ":param", " ", "a", ":", " ", "{{a}}">>],
      [name |-> <<"st">>, kind |-> "static",
       params |-> << [name |-> "a", default |-> Empty],
                     [name |-> "b", default |-> PyInt("0")] >>,
       doc |-> <<"st", " ", "{{a}}", " ", "{{b}}">>],
      [name |-> <<"cm">>, kind |-> "class",
       params |-> << [name |-> "a", default |-> Empty],
                     [name |-> "b", default |-> PyStr(<<"z">>)] >>,
       doc |-> <<"cm", " ", "{{a}}", "@return", "{{b}}">>],
      [name |-> <<"go">>, kind |-> "instance",
       params |-> << [name |-> "self", default |-> Empty],
                     [name |-> "a", default |-> Empty] >>,
       doc |-> <<>>],
      [name |-> <<"_", "_", "init", "_", "_">>, kind |-> "instance",
       params |-> << [name |-> "self", default |-> Empty],
                     [name |-> "a", default |-> Empty] >>,
       doc |-> <<>>],
      [name |-> <<"_", "p">>, kind |-> "instance",
       params |-> << [name |-> "self", default |-> Empty],
                     [name |-> "a", default |-> Empty] >>,
       doc |-> <<"p", " ", "{{a}}">>],
      [name |-> <<"f">>, kind |-> "plain",
       params |-> << [name |-> "a", default |-> Empty],
                     [name |-> "b", default |-> Empty] >>,
       doc |-> <<"f", " ", "{{a}}">>] }

NoFunc == [name |-> <<>>, kind |-> "none", params |-> <<>>, doc |-> <<>>]

\* The values passed at the call site, positionally and by keyword.
ArgValues == {PyInt("2"), PyInt("0"), PyStr(<<"x">>), PyFalse, Other}
KwValues == {PyInt("3"), PyInt("0"), PyStr(<<"'", "y", "'">>)}
ArgLists == UNION { [1..n -> ArgValues] : n \in 0..MaxArgs }
KwNames == {"a", "b"}
KwMaps == UNION { [S -> KwValues] : S \in SUBSET KwNames }

\* func.__name__.startswith("_")  (lines 65, 116)
StartsWithUnderscore(name) == name # <<>> /\ name[1] = "_"

\* func.__name__ != "__init__"  (lines 99, 157)
IsInit(f) == f.name = <<"_", "_", "init", "_", "_">>

\* inspect._findclass(func) (lines 98, 107): the class the qualified name
\* leads to; None for a function that belongs to no class.
HasClass(f) == f.kind # "plain"

\* inspect.ismethod(func) (line 104): log hands _trace the bound method of a
\* classmethod, the plain function of every other member.
IsMethod(f) == f.kind = "class"

\* The names is_static_method collects (lines 72-79).
PositionalNames(f) == [i \in 1..Len(f.params) |-> f.params[i].name]

\* is_static_method(inspect._findclass(func), func.__name__), lines 55-87;
\* the class attribute is a function (the wrapper log installed, whose
\* signature is func's), so line 86 answers True.
is_static_method(f) ==
    IF StartsWithUnderscore(f.name) THEN FALSE
    ELSE IF Len(PositionalNames(f)) = 0 THEN TRUE
    ELSE IF PositionalNames(f)[1] = "self" THEN FALSE
    ELSE TRUE

\* The argument tuple the wrapper receives: log installs a plain function in
\* the class, so a call through an instance passes the instance first.
WrapperArgs(f, via, args) ==
    IF via = "instance" /\ f.kind # "plain" THEN <<Recv>> \o args ELSE args

\* The argument tuple the uninstrumented callable receives for the same call.
OriginalArgs(f, via, args) ==
    IF via = "instance" /\ f.kind = "instance" THEN <<Recv>> \o args ELSE args

\* Lines 94-114: [a |-> the argument list after the receiver rule,
\* err |-> isinstance raised TypeError (its second argument is None)].
\* a[0] is evaluated first, so an empty tuple raises the IndexError line 113
\* swallows.
StripReceiver(f, a) ==
    IF Len(a) = 0 THEN [a |-> a, err |-> FALSE]
    ELSE IF ~HasClass(f) THEN [a |-> a, err |-> TRUE]
    ELSE IF /\ a[1].tag = "obj"
            /\ ~IsInit(f)
            /\ (IsMethod(f) \/ is_static_method(f))
         THEN [a |-> Tail(a), err |-> FALSE]
         ELSE [a |-> a, err |-> FALSE]

RECURSIVE BeforeMarker(_)
\* Line 118: re.split(":param|@param|@return|:return", doc)[0]
BeforeMarker(doc) ==
    IF doc = <<>> \/ Head(doc) \in Markers THEN <<>>
    ELSE <<Head(doc)>> \o BeforeMarker(Tail(doc))

RECURSIVE SplitLines(_)
\* title.split("\n")
SplitLines(s) ==
    IF \A i \in 1..Len(s) : s[i] # "\n" THEN <<s>>
    ELSE LET i == CHOOSE j \in 1..Len(s) :
                     s[j] = "\n" /\ \A k \in 1..(j - 1) : s[k] # "\n"
         IN <<SubSeq(s, 1, i - 1)>> \o SplitLines(SubSeq(s, i + 1, Len(s)))

\* Lines 118-119: the text before the first marker, its lines stripped and
\* joined.
TitleOf(doc) ==
    LET lines == SplitLines(BeforeMarker(doc))
    IN Flatten([i \in 1..Len(lines) |-> Strip(lines[i], Whitespace)])

\* Lines 122-139, one parameter: the value params_text receives for the
\* parameter at 1-based position i of the signature.
BindParam(f, i, a, kw, allure) ==
    LET p == f.params[i]
        positional == IF allure /\ Len(a) > 0 /\ i <= Len(a)
                      THEN represent(a[i]) ELSE p.default
    IN IF kw # <<>> /\ p.name \in DOMAIN kw THEN kw[p.name] ELSE positional

\* Lines 120-139: params_text, as the sequence of its (name, value) items in
\* insertion order; self is skipped (line 125) but keeps its index.
ParamsText(f, a, kw, allure) ==
    LET idx == {i \in 1..Len(f.params) : f.params[i].name # "self"}
        nth[k \in 0..Cardinality(idx)] ==
            IF k = 0 THEN 0
            ELSE CHOOSE i \in idx : i > nth[k - 1] /\
                     \A j \in idx : j > nth[k - 1] => i <= j
    IN [k \in 1..Cardinality(idx) |->
          [name |-> f.params[nth[k]].name,
           value |-> BindParam(f, nth[k], a, kw, allure)]]

\* Lines 143-151: the text put in place of a placeholder.
SubstText(argument) ==
    IF Truthy(argument)
    THEN IF argument.tag = "str" THEN Strip(argument.txt, {"'"})
         ELSE argument.txt
    ELSE <<>>

\* Line 142: f"{parameter}" in title -- the bare name occurs in the title,
\* as a word of its own or inside its placeholder.
InTitle(name, title) ==
    \E i \in 1..Len(title) : title[i] = name \/ title[i] = Ph(name)

\* str.replace(old, new) on a title, old being one token.
Replace(title, old, new) ==
    Flatten([i \in 1..Len(title) |->
                IF title[i] = old THEN new ELSE <<title[i]>>])

RECURSIVE Substitute(_, _)
\* Lines 141-151: the replacements, in the order of params_text.
Substitute(title, items) ==
    IF items = <<>> THEN title
    ELSE LET it == Head(items)
             next == IF InTitle(it.name, title)
                     THEN Replace(title, Ph(it.name), SubstText(it.value))
                     ELSE title
         IN Substitute(next, Tail(items))

NoResult ==
    [outcome |-> "pending", invoked |-> 0, callArgs |-> <<>>, callKw |-> <<>>,
     logged |-> <<>>, step |-> FALSE, rendered |-> FALSE, title |-> <<>>,
     bound |-> <<>>]

\* Lines 156-163 when step reporting is absent: for a callable other than
\* __init__ neither branch returns, so the wrapper falls off its end.
TailCall(f, allure, res) ==
    IF ~IsInit(f)
    THEN IF allure
         THEN [res EXCEPT !.outcome = "func", !.invoked = 1, !.step = TRUE]
         ELSE [res EXCEPT !.outcome = "None", !.invoked = 0,
                          !.callArgs = <<>>, !.callKw = <<>>]
    ELSE [res EXCEPT !.outcome = "func", !.invoked = 1]

\* Lines 93-156, up to the call of logger.info: the receiver is stripped and
\* the title rendered.  outcome is "pending" when the wrapper goes on to line
\* 156, "func" when it has returned or raised exactly what
\* func(*callArgs, **callKw) does (line 153), "TypeError" when the tracer
\* itself raised.
wrappedHead(f, via, args, kw, allure) ==
    LET s == StripReceiver(f, WrapperArgs(f, via, args))
        a == s.a
        items == ParamsText(f, a, kw, allure)
        base == [NoResult EXCEPT !.callArgs = a, !.callKw = kw]
    IN IF s.err THEN [NoResult EXCEPT !.outcome = "TypeError"]
       ELSE IF f.doc # <<>>
       THEN IF ~StartsWithUnderscore(f.name)
            THEN LET title == Substitute(TitleOf(f.doc), items)
                 IN [base EXCEPT !.rendered = TRUE, !.title = title,
                                 !.bound = items,
                                 !.logged = <<"[">> \o f.name \o <<"]: ">> \o title]
            ELSE [base EXCEPT !.outcome = "func", !.invoked = 1]   \* line 153
       ELSE [base EXCEPT !.title = f.name,                          \* line 155
                         !.logged = <<"[">> \o f.name \o <<"]: ">> \o f.name]

\* Lines 93-163: one invocation of the wrapper whose logger.info returned.
\* outcome is "None" when the wrapper returns None without calling func.
wrapped(f, via, args, kw, allure) ==
    LET r == wrappedHead(f, via, args, kw, allure)
    IN IF r.outcome = "pending" THEN TailCall(f, allure, r) ELSE r

\* The thread that makes the traced call.
TracerThread == 1

TInit ==
    /\ ALLURE_STEP \in BOOLEAN
    /\ tfunc \in Funcs
    /\ tvia \in {"instance", "class"}
    /\ tvia = "instance" => tfunc.kind # "plain"
    /\ targs \in ArgLists
    /\ tkw \in KwMaps
    /\ tphase = "ready"
    /\ tres = NoResult

\* The wrapper is called: lines 93-155, and at line 156 it enters logger.info
\* (line 306 is next).  A call that does not reach line 156 is over.
TraceCall ==
    /\ tphase = "ready"
    /\ pc[TracerThread] = "idle"
    /\ tres' = wrappedHead(tfunc, tvia, targs, tkw, ALLURE_STEP)
    /\ IF tres'.outcome = "pending"
       THEN /\ tphase' = "logging"
            /\ pc' = [pc EXCEPT ![TracerThread] = "f306"]
            /\ built' = [built EXCEPT ![TracerThread] = NoInst]
       ELSE /\ tphase' = "called"
            /\ UNCHANGED <<pc, built>>
    /\ UNCHANGED <<ALLURE_STEP, tfunc, tvia, targs, tkw>>
    /\ UNCHANGED <<call, facade, lock, slot, cache, defined, heap, tmp, ret,
                   handlers, facadeInits>>
    /\ UNCHANGED lvars

\* Lines 157-163, once logger.info has returned: the callable is invoked, or
\* not.  An exception of logger.info leaves the wrapper at line 156.
TraceTail ==
    /\ tphase = "logging"
    /\ pc[TracerThread] \in {"idle", "raised"}
    /\ tphase' = "called"
    /\ tres' = IF pc[TracerThread] = "idle"
               THEN wrapped(tfunc, tvia, targs, tkw, ALLURE_STEP)
               ELSE [tres EXCEPT !.outcome = "raised"]
    /\ pc' = [pc EXCEPT ![TracerThread] = "idle"]
    /\ call' = [call EXCEPT ![TracerThread] = NoCall]
    /\ facade' = [facade EXCEPT ![TracerThread] = FALSE]
    /\ built' = [built EXCEPT ![TracerThread] = NoInst]
    /\ UNCHANGED <<ALLURE_STEP, tfunc, tvia, targs, tkw>>
    /\ UNCHANGED <<lock, slot, cache, defined, heap, tmp, ret, handlers,
                   facadeInits>>
    /\ UNCHANGED lvars

\* The traced call of one thread in a fresh process: the wrapper and, inside
\* its logger.info, the steps of the facade and of Singleton.__call__.  With
\* no other thread running line 45 misses whenever line 306 found no handler,
\* so line 51 is not among the steps.
TNext ==
    \/ TraceCall
    \/ FacadeCheck(TracerThread)
    \/ CacheRead(TracerThread)
    \/ CacheCheck(TracerThread)
    \/ Acquire(TracerThread)
    \/ Allocate(TracerThread)
    \/ InitReset(TracerThread)
    \/ AddHandler(TracerThread)
    \/ StoreNew(TracerThread)
    \/ InsertRead(TracerThread)
    \/ Insert(TracerThread)
    \/ Release(TracerThread)
    \/ Return(TracerThread)
    \/ FacadeDiscard(TracerThread)
    \/ FacadeEmit(TracerThread)
    \/ TraceTail

(***************************************************************************)
(* PART 3.  The Class Instrumentor, log (lines 168-193).                    *)
(* Class names and patterns are texts of one-character tokens.              *)
(***************************************************************************)
MaxPats == 1
MaxApply == 2

\* The classes log is applied to: a top-level class, a subclass of it, and a
\* class nested in another.  path is the class's qualified name split at ".".
Classes == {"Base", "Derived", "Nested"}

ClassPath(c) ==
    CASE c = "Base" -> << <<"a", "b">> >>
      [] c = "Derived" -> << <<"b", "a">> >>
      [] c = "Nested" -> << <<"a", "a">>, <<"b", "b">> >>

\* cls.__name__: the last component of the qualified name.
ClassName(c) == ClassPath(c)[Len(ClassPath(c))]

NoClass == "object"
Parent(c) == IF c = "Derived" THEN "Base" ELSE NoClass

MemberNames == { <<"run">>, <<"st">>, <<"cm">>, <<"_", "p">>, <<"prop">>, <<"go">> }

NoMember ==
    [kind |-> "absent", qual |-> <<>>, owner |-> NoClass, gen |-> 0, depth |-> 0,
     log |-> FALSE]

\* A member as its class body declares it: kind is the descriptor in the
\* class dictionary, qual its __qualname__ split at ".", owner the class that
\* declares it, gen the application of log to its class that created it (0:
\* the class body), depth the number of _trace wrappers around the declared callable,
\* log the attribute "__log".
Declared(c, kind, name) ==
    [kind |-> kind, qual |-> ClassPath(c) \o <<name>>, owner |-> c, gen |-> 0,
     depth |-> 0, log |-> FALSE]

\* cls.__dict__ of each class before any instrumentation.
ClassBody(c) ==
    [n \in MemberNames |->
        CASE c = "Base" /\ n = <<"run">> -> Declared(c, "function", n)
          [] c = "Base" /\ n = <<"st">> -> Declared(c, "staticmethod", n)
          [] c = "Base" /\ n = <<"cm">> -> Declared(c, "classmethod", n)
          [] c = "Base" /\ n = <<"_", "p">> -> Declared(c, "function", n)
          [] c = "Base" /\ n = <<"prop">> -> Declared(c, "property", n)
          [] c = "Derived" /\ n = <<"go">> -> Declared(c, "function", n)
          [] c = "Derived" /\ n = <<"st">> -> Declared(c, "staticmethod", n)
          [] c = "Nested" /\ n = <<"run">> -> Declared(c, "function", n)
          [] c = "Nested" /\ n = <<"cm">> -> Declared(c, "classmethod", n)
          [] OTHER -> NoMember]

\* The strings a configuration list may hold.
Patterns == { <<>>, <<"a">>, <<"b">>, <<"a", "b">>, <<"b", "b">> }

\* config.CLASS_NAME_STARTSWITH / _ENDSWITH / _CONTAIN: the code asks only
\* whether some element matches, so a list is modelled by its set of elements.
PatternLists == { S \in SUBSET Patterns : Cardinality(S) <= MaxPats }


\* str.startswith(prefix)
StartsWith(s, p) == Len(p) <= Len(s) /\ SubSeq(s, 1, Len(p)) = p

\* str.endswith(suffix)
EndsWith(s, p) ==
    Len(p) <= Len(s) /\ SubSeq(s, Len(s) - Len(p) + 1, Len(s)) = p

\* str.find(text) > -1
Contains(s, p) ==
    \E i \in 1..(Len(s) - Len(p) + 1) : SubSeq(s, i, i + Len(p) - 1) = p

\* Lines 179-185: the match policy on a class name.
Matches(cname) ==
    \/ \E p \in CLASS_NAME_STARTSWITH : StartsWith(cname, p)
    \/ \E p \in CLASS_NAME_ENDSWITH : EndsWith(cname, p)
    \/ \E p \in CLASS_NAME_CONTAIN : Contains(cname, p)

RECURSIVE GetAttr(_, _, _)
\* getattr(cls, name): the class's own entry, else its base's.
GetAttr(d, c, n) ==
    IF c = NoClass THEN NoMember
    ELSE IF d[c][n] # NoMember THEN d[c][n]
    ELSE GetAttr(d, Parent(c), n)

\* Lines 170-172: inspect.getmembers with isfunction(x) or ismethod(x).  A
\* staticmethod is fetched as its function, a classmethod as a bound method,
\* a property as itself.
IsRoutineMember(m) == m.kind \in {"function", "staticmethod", "classmethod"}

\* Line 174: obj.__qualname__.split(".")[0]
class_name(m) == Head(m.qual)

\* A class instrumentor that never finds the mark.
AlreadyLoggedNever(m) == FALSE

\* Lines 186-187: the member carries "__log" and it is true.
AlreadyLogged(m) == m.log

\* Lines 188-189, 191-192: setattr(cls, name, _trace(obj)) installs a plain
\* function that functools.wraps gives obj's __qualname__, then "__log" is
\* set on it.
Wrap(m, g) ==
    [kind |-> "function", qual |-> m.qual, owner |-> m.owner, gen |-> g,
     depth |-> m.depth + 1, log |-> TRUE]

\* Lines 170-193 for one member name of cls: the entry of cls.__dict__ after
\* the loop body.
LogMember(d, c, n, g) ==
    LET obj == GetAttr(d, c, n)
    IN IF ~IsRoutineMember(obj) THEN d[c][n]
       ELSE IF StartsWithUnderscore(n) THEN d[c][n]                \* line 177
       ELSE IF ~Matches(class_name(obj)) THEN d[c][n]
       ELSE IF AlreadyLogged(obj) THEN d[c][n]
       ELSE Wrap(obj, g)

LInit ==
    /\ CLASS_NAME_STARTSWITH \in PatternLists
    /\ CLASS_NAME_ENDSWITH \in PatternLists
    /\ CLASS_NAME_CONTAIN \in PatternLists
    /\ dict = [c \in Classes |-> ClassBody(c)]
    /\ applied = [c \in Classes |-> 0]

\* log(cls): the whole loop; each member is decided on its own name.
Log(c) ==
    /\ applied[c] < MaxApply
    /\ applied' = [applied EXCEPT ![c] = @ + 1]
    /\ dict' = [dict EXCEPT ![c] =
                  [n \in MemberNames |-> LogMember(dict, c, n, applied[c] + 1)]]
    /\ UNCHANGED <<CLASS_NAME_STARTSWITH, CLASS_NAME_ENDSWITH, CLASS_NAME_CONTAIN>>
    /\ UNCHANGED <<svars, tvars>>

LNext == \E c \in Classes : Log(c)

(***************************************************************************)
(* The three specifications.  Each runs one part and holds the other two    *)
(* parts at rest.                                                           *)
(***************************************************************************)
SRest ==
    /\ pc = [t \in Threads |-> "idle"]
    /\ call = [t \in Threads |-> NoCall]
    /\ facade = [t \in Threads |-> FALSE]
    /\ lock = NoThread
    /\ slot = NoInst
    /\ cache = [ty \in Types |-> [k \in Keys |-> NoInst]]
    /\ defined = {"logger"}
    /\ heap = [i \in InstIds |-> NoObj]
    /\ tmp = [t \in Threads |-> NoInst]
    /\ ret = [t \in Threads |-> NoInst]
    /\ built = [t \in Threads |-> NoInst]
    /\ handlers = 0
    /\ facadeInits = 0

TRest ==
    /\ ALLURE_STEP = FALSE
    /\ tfunc = NoFunc
    /\ tvia = "class"
    /\ targs = <<>>
    /\ tkw = <<>>
    /\ tphase = "rest"
    /\ tres = NoResult

LRest ==
    /\ CLASS_NAME_STARTSWITH = {}
    /\ CLASS_NAME_ENDSWITH = {}
    /\ CLASS_NAME_CONTAIN = {}
    /\ dict = [c \in Classes |-> ClassBody(c)]
    /\ applied = [c \in Classes |-> MaxApply]

InitSingleton == SInit /\ TRest /\ LRest
SpecSingleton == InitSingleton /\ [][SNext]_vars

InitTrace == TInit /\ SRest /\ LRest
SpecTrace == InitTrace /\ [][TNext]_vars

InitLog == LInit /\ SRest /\ TRest
SpecLog == InitLog /\ [][LNext]_vars

(***************************************************************************)
(* PART 4.  The claims.                                                     *)
(***************************************************************************)
\* The lines of Singleton.__call__ (45-52).
InCall == {"l45", "l45b", "l46", "l47", "l236", "l300", "l301", "l302", "l47s", "l48",
           "l48w", "l48x", "l48e", "l51", "l51s", "l52"}

\* C1: one invocation of the wrapper invokes the original callable exactly
\* once, with the argument list the call site wrote, and returns or raises
\* what the callable does, whether step reporting is present or absent.
C1_OutcomeUnaltered ==
    tphase = "called" =>
        /\ tres.outcome = "func"
        /\ tres.invoked = 1
        /\ tres.callArgs = OriginalArgs(tfunc, tvia, targs)
        /\ tres.callKw = tkw

\* C2: calls of the same type with the same derived key that overlap (each is
\* inside Singleton.__call__ or its caller still holds what it returned)
\* construct the instance once between them and return the same instance.
C2_ConstructedOnce ==
    \A t1, t2 \in Threads :
        (/\ t1 # t2
         /\ pc[t1] \in InCall \cup {"done"}
         /\ pc[t2] \in InCall \cup {"done"}
         /\ call[t1].type = call[t2].type
         /\ DerivedKey(call[t1]) = DerivedKey(call[t2]))
        => /\ ~(built[t1] # NoInst /\ built[t2] # NoInst)
           /\ (pc[t1] = "done" /\ pc[t2] = "done" => ret[t1] = ret[t2])

\* C3: the cache mechanism never keeps an instance alive: when no call is
\* inside Singleton.__call__, every instance the cache still holds is held by
\* some caller, so an entry disappears once the callers have dropped it.
C3_WeakOwnership ==
    (\A t \in Threads : pc[t] \notin InCall) =>
        \A ty \in Types, k \in Keys :
            cache[ty][k] # NoInst => \E t \in Threads : ret[t] = cache[ty][k]

\* C4: applying log to a class it was already applied to replaces no member
\* of the class (own or inherited), and no member is ever wrapped twice.
C4_Idempotent ==
    [][\A c \in Classes :
          /\ (applied[c] >= 1 /\ applied'[c] = applied[c] + 1) =>
                \A n \in MemberNames : GetAttr(dict', c, n) = GetAttr(dict, c, n)
          /\ \A n \in MemberNames : GetAttr(dict', c, n).depth <= 1]_vars

\* C4 witness: log has been applied twice to a class that holds a wrapper.
C4_Witness ==
    \E c \in Classes :
        /\ applied[c] = 2
        /\ \E n \in MemberNames : dict[c][n].depth = 1 /\ dict[c][n].log

\* The position of the parameter called name in the signature of f.
ParamIndex(f, name) == CHOOSE i \in 1..Len(f.params) : f.params[i].name = name

\* The text of a bound value as the specification renders it: a string
\* without its surrounding quote characters, any other value as str() has it.
ClaimText(v) == IF v.tag = "str" THEN Strip(v.txt, {"'"}) ELSE v.txt

\* C5: in a rendered title the text substituted for a parameter is that of
\* the positional argument at the parameter's position if one was passed,
\* else of the keyword argument of its name, else of its declared default;
\* a non-string value, 0 and False included, renders as its str() text.
C5_ParameterBinding ==
    (tphase = "called" /\ tres.rendered) =>
        \A k \in 1..Len(tres.bound) :
            LET name == tres.bound[k].name
                i == ParamIndex(tfunc, name)
                E == OriginalArgs(tfunc, tvia, targs)
                given == SubstText(tres.bound[k].value)
            IN  /\ (i <= Len(E) /\ name \notin DOMAIN tkw) =>
                      given = ClaimText(E[i])
                /\ (i > Len(E) /\ name \in DOMAIN tkw) =>
                      given = ClaimText(tkw[name])
                /\ (i > Len(E) /\ name \notin DOMAIN tkw
                      /\ tfunc.params[i].default # Empty) =>
                      given = ClaimText(tfunc.params[i].default)

\* C6: a placeholder of the title whose parameter has no positional value,
\* no keyword value and no default is replaced with the empty string, and
\* rendering raises nothing.
C6_UnresolvedEmpty ==
    tphase = "called" =>
        \A i \in 1..Len(tfunc.params) :
            LET p == tfunc.params[i]
                E == OriginalArgs(tfunc, tvia, targs)
                title == TitleOf(tfunc.doc)
            IN (/\ p.name # "self"
                /\ ~StartsWithUnderscore(tfunc.name)
                /\ \E j \in 1..Len(title) : title[j] = Ph(p.name)
                /\ i > Len(E)
                /\ p.name \notin DOMAIN tkw
                /\ p.default = Empty)
               => /\ tres.outcome # "TypeError"
                  /\ tres.rendered
                  /\ \A j \in 1..Len(tres.title) : tres.title[j] # Ph(p.name)
                  /\ \E k \in 1..Len(tres.bound) :
                        /\ tres.bound[k].name = p.name
                        /\ SubstText(tres.bound[k].value) = <<>>

\* C7: for an instance method called through an instance, no parameter is
\* bound to the receiver's text, and every parameter that has a positional
\* argument is bound to the argument at its own position.
C7_ReceiverExcluded ==
    (tphase = "called" /\ tfunc.kind = "instance" /\ tvia = "instance"
        /\ tres.rendered) =>
        \A k \in 1..Len(tres.bound) :
            LET name == tres.bound[k].name
                i == ParamIndex(tfunc, name)
                a == <<Recv>> \o targs
            IN  /\ tres.bound[k].value.txt # Recv.txt
                /\ tres.bound[k].value # represent(Recv)
                /\ (i <= Len(a) /\ name \notin DOMAIN tkw) =>
                      SubstText(tres.bound[k].value) = ClaimText(a[i])

\* C8: the constructor body of logger runs at most once on behalf of the
\* facade functions, however their first calls interleave.
C8_SinkOnce == facadeInits <= 1

\* The declaring type of a member: the class whose body defines it.
DeclaringName(m) == ClassName(m.owner)

\* C9: after log(C), a function or method member of C is wrapped if and only
\* if its name does not begin with an underscore and the name of its
\* declaring type matches the configuration; every other member is the
\* original object.
C9_SelectionPolicy ==
    \A c \in Classes :
        applied[c] >= 1 =>
            \A n \in MemberNames :
                LET m == GetAttr(dict, c, n)
                    original == GetAttr([k \in Classes |-> ClassBody(k)], c, n)
                IN /\ IsRoutineMember(m) =>
                        ((m.depth >= 1) <=>
                            (~StartsWithUnderscore(n) /\ Matches(DeclaringName(m))))
                   /\ m.depth = 0 => m = original

\* C10: a call that has returned holds an instance of its own type that was
\* constructed with its own key.
C10_OwnInstance ==
    \A t \in Threads :
        pc[t] = "done" =>
            /\ ret[t] # NoInst
            /\ heap[ret[t]].type = call[t].type
            /\ heap[ret[t]].key = DerivedKey(call[t])

====
